---------------------------- MODULE Spec2Model ----------------------------
(***************************************************************************)
(* Verification model of the mapf planning core: the SE(2) line-follow     *)
(* expander of src/mapf/src/directed/line_follow_se2.rs driven by the A*   *)
(* algorithm and the Planner/Progress pair.                                *)
(*                                                                         *)
(* Discretisation.  Positions are integer grid cells (1 cell = 1 m), yaw   *)
(* is an integer number of 45 degree units in 0..YawSteps-1, and time and  *)
(* cost are integer ticks of 50 ms, so that the speeds of the repository's *)
(* test (1.0 m/s, pi rad/s) give TransTicks ticks per metre and RotTicks   *)
(* ticks per yaw unit.  Conversions of a real duration to an integer       *)
(* truncate, as the i64 nanosecond conversion does.                        *)
(*                                                                         *)
(* Option<T> is modelled as a sequence: <<>> is None and <<x>> is Some(x). *)
(* Arc<Node> is modelled by value: nodes are immutable, so a node record   *)
(* holds its parent record.                                                *)
(***************************************************************************)
EXTENDS Integers, Sequences, FiniteSets, TLC

VARIABLES
    graph,      \* Expander.graph: [vertices: 0..n-1 -> point, edges: 0..n-1 -> Seq(vertex)]
    tie,        \* the frontier's tie-break rule, fixed for a run: "fifo" or "lifo"
    start,      \* the Start given to plan
    goal,       \* the Goal given to plan, as Option<Goal>
    phase,      \* position of the caller: "new", "error" (plan failed), "idle"
                \* (between solve calls), "solving", "done"
    frontier,   \* open nodes in insertion order
    closed,     \* the closed set: set of nodes, at most one per key
    status,     \* the last status produced by step: "Incomplete", "Solved", "Impossible"
    solution,   \* Option<Solution> of the Solved status
    solved_node,\* Option<Node>: the node the Solved status was built from
    budget,     \* Option<Nat>: steps left in the current solve call (None: no limit)
    popped,     \* history: the nodes popped so far, in order
    initial_nodes, \* Option<InitialNodes>: the initial-node stream a caller holds
    expansion,  \* Option<Expansion>: the successor stream a caller holds
    yielded     \* history: what each next() call on the held stream returned

\* the state of a caller driving the expander's streams by hand
stream_vars == <<initial_nodes, expansion, yielded>>

vars == <<graph, tie, start, goal, phase, frontier, closed, status, solution,
          solved_node, budget, popped, initial_nodes, expansion, yielded>>

-----------------------------------------------------------------------------
(* Bounds of the model *)

\* greatest number of undirected edges of a graph
MaxEdges == 4
\* greatest number of next() calls a caller makes on one stream
MaxCalls == 6
\* greatest number of ancestors of a node a caller expands by hand
MaxDepth == 1
\* greatest node-count limit given to a solve call
MaxLimit == 2
\* cap on the number of steps of one search
MaxSteps == 60

(* Program constants, in model units *)

\* yaw units in a full turn (45 degrees each)
YawSteps == 8
\* ticks to drive one metre at the test's translational speed 1.0 m/s
TransTicks == 20
\* ticks to turn one yaw unit at the test's rotational speed pi rad/s
RotTicks == 5
\* motion::DEFAULT_ROTATIONAL_THRESHOLD (about one degree) in yaw units
RotThreshold == 0

\* f64::NAN as a coordinate or a yaw: a value outside the grid and the yaws
NaN == -1000

None == <<>>
Some(x) == <<x>>

\* the vertex positions of every graph of the model, vertex v at
\* VertexPositions[v + 1]: three vertices in a line and one above the middle
VertexPositions == << <<0, 0>>, <<1, 0>>, <<2, 0>>, <<1, 1>> >>

Vertices == 0 .. (Len(VertexPositions) - 1)

\* the least index that is out of range of graph.vertices
BadVertex == Len(VertexPositions)
Yaws == 0 .. (YawSteps - 1)

-----------------------------------------------------------------------------
(* SE(2) arithmetic *)

Abs(n) == IF n < 0 THEN -n ELSE n

\* |(a / b).angle()|: the absolute angle between two rotations, in yaw units
AngleAbs(a, b) ==
    LET d == (a - b) % YawSteps
    IN IF 2 * d > YawSteps THEN YawSteps - d ELSE d

\* integer square root (truncating)
Isqrt(n) == CHOOSE r \in 0 .. n : r * r <= n /\ (r + 1) * (r + 1) > n

\* atan2(dy, dx) in yaw units, for directions along an axis or a diagonal
Bearing(dx, dy) ==
    IF dy = 0 THEN (IF dx >= 0 THEN 0 ELSE 4)
    ELSE IF dx = 0 THEN (IF dy > 0 THEN 2 ELSE 6)
    ELSE IF dx > 0 THEN (IF dy > 0 THEN 1 ELSE 7)
    ELSE (IF dy > 0 THEN 3 ELSE 5)

\* Duration::from_secs_f64(distance / translational_speed) between two points
TravelTicks(p, q) ==
    Isqrt(TransTicks * TransTicks *
          ((q[1] - p[1]) * (q[1] - p[1]) + (q[2] - p[2]) * (q[2] - p[2])))

Point(x, y) == <<x, y>>
Position(pt, yaw) == [translation |-> pt, rotation |-> yaw]
Waypoint(t, pos) == [time |-> t, position |-> pos]

\* the coordinates of a point are finite numbers
IsFinitePoint(p) == p[1] # NaN /\ p[2] # NaN

\* a position holds finite numbers only
IsFinitePosition(pos) == IsFinitePoint(pos.translation) /\ pos.rotation # NaN

\* two points lie on a common axis or diagonal
Aligned(p, q) ==
    \/ p[1] = q[1]
    \/ p[2] = q[2]
    \/ Abs(p[1] - q[1]) = Abs(p[2] - q[2])

-----------------------------------------------------------------------------
(* Trajectory *)

StrictlyIncreasing(wps) ==
    \A i \in 1 .. (Len(wps) - 1) : wps[i].time < wps[i + 1].time

\* Trajectory::from_iter(..).ok(): None unless there are at least two
\* waypoints with strictly increasing times
TrajectoryFromIter(wps) ==
    IF Len(wps) >= 2 /\ StrictlyIncreasing(wps) THEN Some(wps) ELSE None

\* Trajectory::duration
Duration(trajectory) == trajectory[Len(trajectory)].time - trajectory[1].time

\* TimeCostCalculator::compute_cost
compute_cost(trajectory) == Duration(trajectory)

-----------------------------------------------------------------------------
(* Extrapolator: DifferentialDriveLineFollow *)

\* extrapolate(from_state, to_point): Ok(waypoints), or Err when an input is
\* not finite
ExtrapolateToPoint(from_state, to_point) ==
    IF ~IsFinitePosition(from_state.position) \/ ~IsFinitePoint(to_point)
    THEN [ok |-> FALSE, waypoints |-> << >>]
    ELSE
    LET p0 == from_state.position.translation
        yaw0 == from_state.position.rotation
        bearing == Bearing(to_point[1] - p0[1], to_point[2] - p0[2])
        delta == AngleAbs(bearing, yaw0)
        spin == IF delta > RotThreshold
                THEN << Waypoint(from_state.time + delta * RotTicks,
                                 Position(p0, bearing)) >>
                ELSE << >>
        t1 == IF spin = << >> THEN from_state.time ELSE spin[1].time
        drive == IF to_point # p0
                 THEN << Waypoint(t1 + TravelTicks(p0, to_point),
                                  Position(to_point, bearing)) >>
                 ELSE << >>
    IN [ok |-> TRUE, waypoints |-> spin \o drive]

\* extrapolate(from_state, to_position) with the target at the current
\* translation: rotate in place to the target yaw
ExtrapolateToPosition(from_state, to_target) ==
    IF ~IsFinitePosition(from_state.position) \/ ~IsFinitePosition(to_target)
    THEN [ok |-> FALSE, waypoints |-> << >>]
    ELSE
    LET p0 == from_state.position.translation
        yaw0 == from_state.position.rotation
        delta == AngleAbs(to_target.rotation, yaw0)
    IN [ok |-> TRUE,
        waypoints |-> IF delta > RotThreshold
                      THEN << Waypoint(from_state.time + delta * RotTicks,
                                       Position(p0, to_target.rotation)) >>
                      ELSE << >>]

-----------------------------------------------------------------------------
(* Graph, Start, Goal *)

\* graph.vertices.get(v)
VerticesGet(v) == IF v \in DOMAIN graph.vertices THEN Some(graph.vertices[v]) ELSE None

\* graph.edges.get(v)
EdgesGet(v) == IF v \in DOMAIN graph.edges THEN Some(graph.edges[v]) ELSE None

\* Start::to_waypoint
to_waypoint(s) ==
    IF s.offset_location # None
    THEN Some(Waypoint(0, Position(s.offset_location[1], s.orientation)))
    ELSE IF VerticesGet(s.vertex) # None
    THEN Some(Waypoint(0, Position(VerticesGet(s.vertex)[1], s.orientation)))
    ELSE None

\* is_satisfied comparing the yaw error with < instead of <=
is_satisfied_strict(g, node) ==
    IF g.vertex # node.vertex THEN FALSE
    ELSE IF g.orientation # None
    THEN AngleAbs(node.state.position.rotation, g.orientation[1].target)
            < g.orientation[1].threshold
    ELSE TRUE

\* Goal::is_satisfied (a yaw error that is NaN is not <= any threshold)
is_satisfied(g, node) ==
    IF g.vertex # node.vertex THEN FALSE
    ELSE IF g.orientation # None
    THEN /\ g.orientation[1].target # NaN
         /\ node.state.position.rotation # NaN
         /\ AngleAbs(node.state.position.rotation, g.orientation[1].target)
                <= g.orientation[1].threshold
    ELSE TRUE

\* self.goal.map(|g| g.vertex)
GoalVertex(g) == IF g # None THEN Some(g[1].vertex) ELSE None

\* estimate_cost giving zero, instead of none, for a vertex that is out of range
estimate_cost_lenient(from_vertex, to_goal) ==
    IF to_goal # None
    THEN IF VerticesGet(from_vertex) = None \/ VerticesGet(to_goal[1]) = None
         THEN Some(0)
         ELSE Some(TravelTicks(VerticesGet(from_vertex)[1], VerticesGet(to_goal[1])[1]))
    ELSE Some(0)

\* estimate_cost measuring the distance along the axes instead of the
\* straight line
estimate_cost_manhattan(from_vertex, to_goal) ==
    IF to_goal # None
    THEN IF VerticesGet(from_vertex) = None \/ VerticesGet(to_goal[1]) = None
         THEN None
         ELSE Some(TransTicks *
                   (Abs(VerticesGet(from_vertex)[1][1] - VerticesGet(to_goal[1])[1][1])
                    + Abs(VerticesGet(from_vertex)[1][2] - VerticesGet(to_goal[1])[1][2])))
    ELSE Some(0)

\* EuclideanHeuristic::estimate_cost: Option<Cost>
estimate_cost(from_vertex, to_goal) ==
    IF to_goal # None
    THEN IF VerticesGet(from_vertex) = None \/ VerticesGet(to_goal[1]) = None
         THEN None
         ELSE Some(TravelTicks(VerticesGet(from_vertex)[1], VerticesGet(to_goal[1])[1]))
    ELSE Some(0)

-----------------------------------------------------------------------------
(* Nodes *)

Key(from_vertex, to_vertex, side) ==
    [from_vertex |-> from_vertex, to_vertex |-> to_vertex, side |-> side]

\* make_node ordering the frontier by the remaining estimate alone
make_node_greedy(state, to_vertex, remaining_cost_estimate, motion, parent) ==
    LET added_cost == IF motion # None THEN compute_cost(motion[1]) ELSE 0
        cost == parent.cost + added_cost
    IN [cost |-> cost,
        remaining_cost_estimate |-> remaining_cost_estimate,
        total_cost_estimate |-> remaining_cost_estimate,
        state |-> state,
        key |-> Some(Key(parent.vertex, to_vertex, "Finish")),
        vertex |-> to_vertex,
        motion_from_parent |-> motion,
        parent |-> Some(parent),
        is_start |-> None]

\* make_node giving the node no key
make_node_keyless(state, to_vertex, remaining_cost_estimate, motion, parent) ==
    LET added_cost == IF motion # None THEN compute_cost(motion[1]) ELSE 0
        cost == parent.cost + added_cost
    IN [cost |-> cost,
        remaining_cost_estimate |-> remaining_cost_estimate,
        total_cost_estimate |-> cost + remaining_cost_estimate,
        state |-> state,
        key |-> None,
        vertex |-> to_vertex,
        motion_from_parent |-> motion,
        parent |-> Some(parent),
        is_start |-> None]

\* make_node leaving the parent's cost out of the node's cost
make_node_flat_cost(state, to_vertex, remaining_cost_estimate, motion, parent) ==
    LET added_cost == IF motion # None THEN compute_cost(motion[1]) ELSE 0
        cost == added_cost
    IN [cost |-> cost,
        remaining_cost_estimate |-> remaining_cost_estimate,
        total_cost_estimate |-> cost + remaining_cost_estimate,
        state |-> state,
        key |-> Some(Key(parent.vertex, to_vertex, "Finish")),
        vertex |-> to_vertex,
        motion_from_parent |-> motion,
        parent |-> Some(parent),
        is_start |-> None]

\* make_node ordering the frontier by the accumulated cost alone
make_node_total_is_cost(state, to_vertex, remaining_cost_estimate, motion, parent) ==
    LET added_cost == IF motion # None THEN compute_cost(motion[1]) ELSE 0
        cost == parent.cost + added_cost
    IN [cost |-> cost,
        remaining_cost_estimate |-> remaining_cost_estimate,
        total_cost_estimate |-> cost,
        state |-> state,
        key |-> Some(Key(parent.vertex, to_vertex, "Finish")),
        vertex |-> to_vertex,
        motion_from_parent |-> motion,
        parent |-> Some(parent),
        is_start |-> None]

\* make_node taking the total estimate from the parent's cost, without the
\* cost of the motion
make_node_stale_total(state, to_vertex, remaining_cost_estimate, motion, parent) ==
    LET added_cost == IF motion # None THEN compute_cost(motion[1]) ELSE 0
        cost == parent.cost + added_cost
    IN [cost |-> cost,
        remaining_cost_estimate |-> remaining_cost_estimate,
        total_cost_estimate |-> parent.cost + remaining_cost_estimate,
        state |-> state,
        key |-> Some(Key(parent.vertex, to_vertex, "Finish")),
        vertex |-> to_vertex,
        motion_from_parent |-> motion,
        parent |-> Some(parent),
        is_start |-> None]

\* Expander::make_node
make_node(state, to_vertex, remaining_cost_estimate, motion, parent) ==
    LET added_cost == IF motion # None THEN compute_cost(motion[1]) ELSE 0
        cost == parent.cost + added_cost
    IN [cost |-> cost,
        remaining_cost_estimate |-> remaining_cost_estimate,
        total_cost_estimate |-> cost + remaining_cost_estimate,
        state |-> state,
        key |-> Some(Key(parent.vertex, to_vertex, "Finish")),
        vertex |-> to_vertex,
        motion_from_parent |-> motion,
        parent |-> Some(parent),
        is_start |-> None]

\* InitialNodes::next on a fresh stream: Option<Node> (a second call returns None)
InitialNodesNext(s, g) ==
    LET remaining == estimate_cost(s.vertex, GoalVertex(g))
        waypoint == to_waypoint(s)
    IN IF remaining # None /\ waypoint # None
       THEN Some([cost |-> 0,
                  remaining_cost_estimate |-> remaining[1],
                  total_cost_estimate |-> remaining[1],
                  state |-> waypoint[1],
                  key |-> None,
                  vertex |-> s.vertex,
                  motion_from_parent |-> None,
                  parent |-> None,
                  is_start |-> Some(s)])
       ELSE None

\* InitialNodes::new
InitialNodesNew(from_start, toward_goal) ==
    [start |-> from_start, expanded |-> FALSE, goal |-> toward_goal]

\* InitialNodes::next leaving the expanded flag unset
InitialNodesStepUnflagged(st) ==
    IF st.expanded THEN [item |-> None, st |-> st]
    ELSE [item |-> InitialNodesNext(st.start, st.goal), st |-> st]

\* InitialNodes::next: [item: Option<Node>, st: the stream after the call]
InitialNodesStep(st) ==
    IF st.expanded THEN [item |-> None, st |-> st]
    ELSE [item |-> InitialNodesNext(st.start, st.goal),
          st |-> [st EXCEPT !.expanded = TRUE]]

-----------------------------------------------------------------------------
(* Expansion stream *)

\* Expansion::new
ExpansionNew(from_node, toward_goal) ==
    [from_node |-> from_node,
     expansion_index |-> 0,
     expanded_start |-> FALSE,
     expanded_goal_orientation |-> FALSE,
     goal |-> toward_goal]

\* the tail shared by expand_to and expand_from_start: extrapolate to the
\* vertex, build the trajectory, ask the heuristic, make the node
ExpandToVertex(st, to_vertex) ==
    IF VerticesGet(to_vertex) # None
    THEN LET extrapolation == ExtrapolateToPoint(st.from_node.state, VerticesGet(to_vertex)[1])
         IN IF extrapolation.ok
            THEN LET waypoints == extrapolation.waypoints
                     state == IF waypoints # << >> THEN waypoints[Len(waypoints)]
                              ELSE st.from_node.state
                     trajectory == TrajectoryFromIter(<<st.from_node.state>> \o waypoints)
                     remaining == estimate_cost(to_vertex, GoalVertex(st.goal))
                 IN IF remaining = None THEN None
                    ELSE Some(make_node(state, to_vertex, remaining[1], trajectory, st.from_node))
            ELSE None
    ELSE None

\* Expansion::expand_to
expand_to(st, to_vertex) == ExpandToVertex(st, to_vertex)

\* Expansion::expand_from_start
expand_from_start(st, to_vertex) == ExpandToVertex(st, to_vertex)

\* rotate_towards_target making a node that carries no key
rotate_towards_target_nokey(st, orientation_goal) ==
    LET to_target == Position(st.from_node.state.position.translation, orientation_goal.target)
        extrapolation == ExtrapolateToPosition(st.from_node.state, to_target)
    IN IF extrapolation.ok
       THEN LET waypoints == extrapolation.waypoints
                state == IF waypoints # << >> THEN waypoints[Len(waypoints)]
                         ELSE st.from_node.state
                trajectory == TrajectoryFromIter(<<st.from_node.state>> \o waypoints)
            IN Some([make_node(state, st.from_node.vertex, 0, trajectory, st.from_node)
                        EXCEPT !.key = None])
       ELSE None

\* rotate_towards_target building the trajectory without the parent's state
\* in front
rotate_towards_target_unprepended(st, orientation_goal) ==
    LET to_target == Position(st.from_node.state.position.translation, orientation_goal.target)
        extrapolation == ExtrapolateToPosition(st.from_node.state, to_target)
    IN IF extrapolation.ok
       THEN LET waypoints == extrapolation.waypoints
                state == IF waypoints # << >> THEN waypoints[Len(waypoints)]
                         ELSE st.from_node.state
                trajectory == TrajectoryFromIter(waypoints)
            IN Some(make_node(state, st.from_node.vertex, 0, trajectory, st.from_node))
       ELSE None

\* Expansion::rotate_towards_target
rotate_towards_target(st, orientation_goal) ==
    LET to_target == Position(st.from_node.state.position.translation, orientation_goal.target)
        extrapolation == ExtrapolateToPosition(st.from_node.state, to_target)
    IN IF extrapolation.ok
       THEN LET waypoints == extrapolation.waypoints
                state == IF waypoints # << >> THEN waypoints[Len(waypoints)]
                         ELSE st.from_node.state
                trajectory == TrajectoryFromIter(<<st.from_node.state>> \o waypoints)
            IN Some(make_node(state, st.from_node.vertex, 0, trajectory, st.from_node))
       ELSE None

\* the goal-orientation branch leaving expanded_goal_orientation unset
GoalOrientationBranchUnflagged(st) ==
    IF /\ st.goal # None
       /\ st.from_node.vertex = st.goal[1].vertex
       /\ ~st.expanded_goal_orientation
    THEN [item |-> IF st.goal[1].orientation # None
                   THEN rotate_towards_target(st, st.goal[1].orientation[1])
                   ELSE None,
          st |-> st]
    ELSE [item |-> None, st |-> st]

\* Expansion::next, the goal-orientation branch: [item, st]
GoalOrientationBranch(st) ==
    IF /\ st.goal # None
       /\ st.from_node.vertex = st.goal[1].vertex
       /\ ~st.expanded_goal_orientation
    THEN LET st2 == [st EXCEPT !.expanded_goal_orientation = TRUE]
             next == IF st.goal[1].orientation # None
                     THEN rotate_towards_target(st, st.goal[1].orientation[1])
                     ELSE None
         IN [item |-> next, st |-> st2]
    ELSE [item |-> None, st |-> st]

\* the neighbor loop stopping one entry short of the end of the list
RECURSIVE NeighborLoopSkipLast(_)
NeighborLoopSkipLast(st) ==
    LET to_vertices == EdgesGet(st.from_node.vertex)
    IN IF to_vertices # None /\ st.expansion_index + 1 < Len(to_vertices[1])
       THEN LET to_vertex == to_vertices[1][st.expansion_index + 1]
                next_opt == expand_to(st, to_vertex)
                st2 == [st EXCEPT !.expansion_index = @ + 1]
            IN IF next_opt # None
               THEN [item |-> next_opt, st |-> st2]
               ELSE NeighborLoopSkipLast(st2)
       ELSE GoalOrientationBranch(st)

\* the neighbor loop leaving the list at the first entry that gives no node
NeighborLoopStopsOnFailure(st) ==
    LET to_vertices == EdgesGet(st.from_node.vertex)
    IN IF to_vertices # None /\ st.expansion_index < Len(to_vertices[1])
       THEN LET to_vertex == to_vertices[1][st.expansion_index + 1]
                next_opt == expand_to(st, to_vertex)
                st2 == [st EXCEPT !.expansion_index = @ + 1]
            IN IF next_opt # None
               THEN [item |-> next_opt, st |-> st2]
               ELSE GoalOrientationBranch(
                        [st EXCEPT !.expansion_index = Len(to_vertices[1])])
       ELSE GoalOrientationBranch(st)

\* the neighbor loop leaving expansion_index where it is after yielding a
\* successor
RECURSIVE NeighborLoopKeepsIndex(_)
NeighborLoopKeepsIndex(st) ==
    LET to_vertices == EdgesGet(st.from_node.vertex)
    IN IF to_vertices # None /\ st.expansion_index < Len(to_vertices[1])
       THEN LET to_vertex == to_vertices[1][st.expansion_index + 1]
                next_opt == expand_to(st, to_vertex)
                st2 == [st EXCEPT !.expansion_index = @ + 1]
            IN IF next_opt # None
               THEN [item |-> next_opt, st |-> st]
               ELSE NeighborLoopKeepsIndex(st2)
       ELSE GoalOrientationBranch(st)

\* Expansion::next, the neighbor loop followed by the goal-orientation branch
RECURSIVE NeighborLoop(_)
NeighborLoop(st) ==
    LET to_vertices == EdgesGet(st.from_node.vertex)
    IN IF to_vertices # None /\ st.expansion_index < Len(to_vertices[1])
       THEN LET to_vertex == to_vertices[1][st.expansion_index + 1]
                next_opt == expand_to(st, to_vertex)
                st2 == [st EXCEPT !.expansion_index = @ + 1]
            IN IF next_opt # None
               THEN [item |-> next_opt, st |-> st2]
               ELSE NeighborLoop(st2)
       ELSE GoalOrientationBranch(st)

\* Expansion::next going on to the neighbors once the off-graph start has
\* been expanded
ExpansionNextFallsThrough(st) ==
    IF /\ st.from_node.is_start # None
       /\ st.from_node.is_start[1].offset_location # None
       /\ ~st.expanded_start
    THEN [item |-> expand_from_start(st, st.from_node.vertex),
          st |-> [st EXCEPT !.expanded_start = TRUE]]
    ELSE NeighborLoop(st)

\* Expansion::next: [item: Option<Node>, st: the stream after the call]
ExpansionNext(st) ==
    IF st.from_node.is_start # None /\ st.from_node.is_start[1].offset_location # None
    THEN IF st.expanded_start
         THEN [item |-> None, st |-> st]
         ELSE [item |-> expand_from_start(st, st.from_node.vertex),
               st |-> [st EXCEPT !.expanded_start = TRUE]]
    ELSE NeighborLoop(st)

\* the successors a consumer collects by calling next() until it returns None
RECURSIVE Drain(_)
Drain(st) ==
    LET r == ExpansionNext(st)
    IN IF r.item = None THEN << >> ELSE <<r.item[1]>> \o Drain(r.st)

\* Expander::expand followed by collecting the stream
Successors(parent, g) == Drain(ExpansionNew(parent, g))

-----------------------------------------------------------------------------
(* Solution *)

\* make_solution's loop: the waypoints pushed while walking up the parent
\* chain, each segment reversed
RECURSIVE CollectReversed(_)
CollectReversed(node) ==
    LET here == IF node.motion_from_parent # None
                THEN [i \in 1 .. Len(node.motion_from_parent[1]) |->
                        node.motion_from_parent[1][Len(node.motion_from_parent[1]) + 1 - i]]
                ELSE << >>
    IN IF node.parent # None THEN here \o CollectReversed(node.parent[1]) ELSE here

\* the node the loop of make_solution ends on: the root of the parent chain
RECURSIVE ChainRoot(_)
ChainRoot(node) == IF node.parent # None THEN ChainRoot(node.parent[1]) ELSE node

Reverse(s) == [i \in 1 .. Len(s) |-> s[Len(s) + 1 - i]]

\* make_solution wrapping the collected waypoints without constructing a
\* Trajectory from them
make_solution_unchecked(solution_node) ==
    LET waypoints == Reverse(CollectReversed(solution_node))
        node == ChainRoot(solution_node)
    IN [cost |-> node.cost, motion |-> Some(waypoints)]

\* Expander::make_solution
make_solution(solution_node) ==
    LET waypoints == Reverse(CollectReversed(solution_node))
        node == ChainRoot(solution_node)
    IN [cost |-> node.cost, motion |-> TrajectoryFromIter(waypoints)]

-----------------------------------------------------------------------------
(* Closed set and A* *)

\* check_and_insert rejecting only a node that costs more than the entry
check_and_insert_strict(cl, node) ==
    IF node.key = None
    THEN [result |-> "Accepted", closed |-> cl]
    ELSE LET same == {c \in cl : c.key = node.key}
         IN IF \E c \in same : c.cost < node.cost
            THEN [result |-> "Rejected", closed |-> cl]
            ELSE [result |-> "Accepted", closed |-> (cl \ same) \cup {node}]

\* check_and_insert keeping the entries it already has for the key
check_and_insert_keeps_all(cl, node) ==
    IF node.key = None
    THEN [result |-> "Accepted", closed |-> cl]
    ELSE LET same == {c \in cl : c.key = node.key}
         IN IF \E c \in same : c.cost < node.cost
            THEN [result |-> "Rejected", closed |-> cl]
            ELSE [result |-> "Accepted", closed |-> cl \cup {node}]

\* PartialKeyedClosedSet::check_and_insert: [result, closed]
check_and_insert(cl, node) ==
    IF node.key = None
    THEN [result |-> "Accepted", closed |-> cl]
    ELSE LET same == {c \in cl : c.key = node.key}
         IN IF \E c \in same : c.cost <= node.cost
            THEN [result |-> "Rejected", closed |-> cl]
            ELSE [result |-> "Accepted", closed |-> (cl \ same) \cup {node}]

\* a pop that leaves ties open: any node of lowest total_cost_estimate
PopCandidatesAnyLowest(f, t) ==
    {i \in 1 .. Len(f) :
        \A j \in 1 .. Len(f) : f[i].total_cost_estimate <= f[j].total_cost_estimate}

\* the frontier indices the pop may take: lowest total_cost_estimate, ties
\* broken by the rule t (first inserted or last inserted among the lowest)
PopCandidates(f, t) ==
    LET best == {i \in 1 .. Len(f) :
                    \A j \in 1 .. Len(f) : f[i].total_cost_estimate <= f[j].total_cost_estimate}
    IN IF t = "fifo"
       THEN {i \in best : \A j \in best : i <= j}
       ELSE {i \in best : \A j \in best : i >= j}

RemoveAt(f, i) == [k \in 1 .. (Len(f) - 1) |-> IF k < i THEN f[k] ELSE f[k + 1]]

\* step expanding a node although the closed set rejected it
StepAtExpandsRejected(f, cl, g, i) ==
    LET node == f[i]
        rest == RemoveAt(f, i)
    IN IF g # None /\ is_satisfied(g[1], node)
       THEN [status |-> "Solved", frontier |-> rest, closed |-> cl,
             node |-> Some(node), solution |-> Some(make_solution(node))]
       ELSE LET ins == check_and_insert(cl, node)
            IN [status |-> "Incomplete",
                frontier |-> rest \o Successors(node, g),
                closed |-> ins.closed,
                node |-> Some(node), solution |-> None]

\* Algorithm::step when the pop takes the frontier's i-th node:
\* [status, frontier, closed, node, solution]
StepAt(f, cl, g, i) ==
    LET node == f[i]
        rest == RemoveAt(f, i)
    IN IF g # None /\ is_satisfied(g[1], node)
       THEN [status |-> "Solved", frontier |-> rest, closed |-> cl,
             node |-> Some(node), solution |-> Some(make_solution(node))]
       ELSE LET ins == check_and_insert(cl, node)
            IN IF ins.result = "Rejected"
               THEN [status |-> "Incomplete", frontier |-> rest, closed |-> cl,
                     node |-> Some(node), solution |-> None]
               ELSE [status |-> "Incomplete",
                     frontier |-> rest \o Successors(node, g),
                     closed |-> ins.closed,
                     node |-> Some(node), solution |-> None]

\* Algorithm::step: the outcomes the step may have
StepResults(f, cl, g, t) ==
    IF f = << >>
    THEN {[status |-> "Impossible", frontier |-> f, closed |-> cl,
           node |-> None, solution |-> None]}
    ELSE {StepAt(f, cl, g, i) : i \in PopCandidates(f, t)}

\* Algorithm::initialize: the frontier holding every initial node of the start
InitialFrontier(s, g) ==
    LET n == InitialNodesNext(s, g)
    IN IF n # None THEN <<n[1]>> ELSE << >>

-----------------------------------------------------------------------------
(* Inputs *)

VertexPosition(v) == VertexPositions[v + 1]

\* the undirected edges a graph may have
CandidateEdges ==
    {e \in SUBSET Vertices :
        /\ Cardinality(e) = 2
        /\ \A u \in e, v \in e : Aligned(VertexPosition(u), VertexPosition(v))}

RECURSIVE SortedSeq(_, _)
\* the elements of a set of numbers as a sequence, ascending or descending
SortedSeq(S, ascending) ==
    IF S = {} THEN << >>
    ELSE LET x == IF ascending
                  THEN CHOOSE a \in S : \A b \in S : a <= b
                  ELSE CHOOSE a \in S : \A b \in S : a >= b
         IN <<x>> \o SortedSeq(S \ {x}, ascending)

\* the graph with the undirected edge set E, neighbor lists in the given order
MakeGraph(E, ascending) ==
    [vertices |-> [v \in Vertices |-> VertexPosition(v)],
     edges |-> [v \in Vertices |->
                  SortedSeq({u \in Vertices : {u, v} \in E /\ u # v}, ascending)]]

Graphs ==
    {MakeGraph(E, asc) : E \in {F \in SUBSET CandidateEdges : Cardinality(F) <= MaxEdges},
                         asc \in BOOLEAN}

\* off-graph start locations
OffsetLocations == {Point(-1, 0)}

\* on-graph starts facing along the edge 0-1 or away from every edge, and
\* off-graph starts
Starts ==
    [vertex : {0}, orientation : {0, 3}, offset_location : {None}]
    \cup [vertex : {0}, orientation : {0}, offset_location : {Some(p) : p \in OffsetLocations}]

\* a threshold of -1 stands for one no yaw can meet
OrientationGoals == [target : {2}, threshold : {-1, 0, 1}]

Goals ==
    [vertex : Vertices,
     orientation : {None} \cup {Some(o) : o \in OrientationGoals}]

\* starts whose vertex index is out of range, on and off the graph
BadStarts ==
    [vertex : {BadVertex}, orientation : {0},
     offset_location : {None} \cup {Some(p) : p \in OffsetLocations}]

\* goals whose vertex index is out of range
BadGoals == [vertex : {BadVertex}, orientation : {None}]

-----------------------------------------------------------------------------
(* The state machine *)

Terminal(st) == st \in {"Solved", "Impossible"}

\* the state after Expander::new and Planner::new on a graph of the set G
InitOn(G) ==
    /\ graph \in G
    /\ tie \in {"fifo", "lifo"}
    /\ start = None
    /\ goal = None
    /\ phase = "new"
    /\ frontier = << >>
    /\ closed = {}
    /\ status = "Incomplete"
    /\ solution = None
    /\ solved_node = None
    /\ budget = None
    /\ popped = << >>
    /\ initial_nodes = None
    /\ expansion = None
    /\ yielded = << >>

Init == InitOn(Graphs)

\* Planner::plan(start, goal): a Progress whose frontier holds the initial
\* nodes, or PlanInitError (phase "error") when the start gives no initial node
Plan ==
    /\ phase = "new"
    /\ \E s \in Starts \cup BadStarts, g \in Goals \cup BadGoals :
        /\ start' = Some(s)
        /\ goal' = Some(g)
        /\ frontier' = InitialFrontier(s, Some(g))
        /\ phase' = IF InitialFrontier(s, Some(g)) = << >> THEN "error" ELSE "idle"
    /\ UNCHANGED <<graph, tie, closed, status, solution, solved_node, budget, popped>>
    /\ UNCHANGED stream_vars

\* the node-count limits a caller may give to solve
Limits == {None} \cup {Some(k) : k \in 1 .. MaxLimit}

\* Progress::solve(limit) is entered, with a limit drawn from L
SolveCall(L) ==
    /\ phase = "idle"
    /\ \E limit \in L : budget' = limit
    /\ phase' = "solving"
    /\ UNCHANGED <<graph, tie, start, goal, frontier, closed, status, solution,
                   solved_node, popped>>
    /\ UNCHANGED stream_vars

\* solve's loop can take its next step
StepEnabled ==
    /\ phase = "solving"
    /\ Len(popped) < MaxSteps
    /\ StepResults(frontier, closed, goal, tie) # {}

\* solve's loop emptying the closed set when it returns at its limit
StepResetsOnLimit ==
    /\ StepEnabled
    /\ \E r \in StepResults(frontier, closed, goal, tie) :
       LET left == IF budget = None THEN None ELSE Some(budget[1] - 1)
           returns == ~Terminal(r.status) /\ left = Some(0)
       IN /\ frontier' = r.frontier
          /\ closed' = IF returns THEN {} ELSE r.closed
          /\ status' = r.status
          /\ solution' = r.solution
          /\ solved_node' = IF r.status = "Solved" THEN r.node ELSE None
          /\ popped' = IF r.node # None THEN Append(popped, r.node[1]) ELSE popped
          /\ budget' = left
          /\ phase' = IF Terminal(r.status) THEN "done"
                      ELSE IF returns THEN "idle"
                      ELSE "solving"
    /\ UNCHANGED <<graph, tie, start, goal>>
    /\ UNCHANGED stream_vars

\* one iteration of solve's loop: a step, then return if the status is
\* terminal or the limit is used up
Step ==
    /\ StepEnabled
    /\ \E r \in StepResults(frontier, closed, goal, tie) :
       LET left == IF budget = None THEN None ELSE Some(budget[1] - 1)
       IN /\ frontier' = r.frontier
          /\ closed' = r.closed
          /\ status' = r.status
          /\ solution' = r.solution
          /\ solved_node' = IF r.status = "Solved" THEN r.node ELSE None
          /\ popped' = IF r.node # None THEN Append(popped, r.node[1]) ELSE popped
          /\ budget' = left
          /\ phase' = IF Terminal(r.status) THEN "done"
                      ELSE IF left = Some(0) THEN "idle"
                      ELSE "solving"
    /\ UNCHANGED <<graph, tie, start, goal>>
    /\ UNCHANGED stream_vars

\* a caller that plans and then solves without a limit
Next == Plan \/ SolveCall({None}) \/ Step

Spec == Init /\ [][Next]_vars

\* a caller that plans and then solves in any number of limited calls
NextLimited == Plan \/ SolveCall(Limits) \/ Step

\* the graphs of the limited-call runs: the largest ones, MaxEdges edges (or
\* every candidate edge), where the searches are longest
GraphsLimited ==
    {MakeGraph(E, asc) :
        E \in {F \in SUBSET CandidateEdges :
                  \/ Cardinality(F) = MaxEdges
                  \/ F = CandidateEdges /\ Cardinality(F) < MaxEdges},
        asc \in BOOLEAN}

InitLimited == InitOn(GraphsLimited)

SpecLimited == InitLimited /\ [][NextLimited]_vars

-----------------------------------------------------------------------------
(* A caller that drives the expander's streams by hand: Expander::start and  *)
(* InitialNodes::next, Expander::expand and Expansion::next.                 *)

\* vertex positions: every vertex finite, or the last vertex not finite
PositionsStreams ==
    {[v \in Vertices |-> VertexPosition(v)],
     [v \in Vertices |-> IF v = BadVertex - 1 THEN Point(NaN, NaN)
                          ELSE VertexPosition(v)]}

\* neighbor lists: plain, with out-of-range indices before and between the
\* entries, with a repeated entry, and empty
NeighborLists ==
    {<<1, 3>>, <<BadVertex, 3, BadVertex, 1>>, <<0, 1, 1>>, << >>}

\* graphs whose vertices all have the same neighbor list, with an edge list
\* for every vertex or for vertex 0 only
GraphsStreams ==
    {[vertices |-> P, edges |-> [v \in D |-> l]] :
        P \in PositionsStreams, l \in NeighborLists, D \in {Vertices, {0}}}

StartsStreams == Starts \cup BadStarts

\* goals with and without an orientation, with a target yaw that is not
\* finite, and with an out-of-range vertex
GoalsStreams ==
    {None}
    \cup {Some(g) : g \in [vertex : {0, 1},
                            orientation : {None, Some([target |-> 2, threshold |-> 0]),
                                           Some([target |-> NaN, threshold |-> 0])}]}
    \cup {Some(g) : g \in BadGoals}

InitStreams == InitOn(GraphsStreams) /\ tie = "fifo"

\* what the stream actions leave alone
search_vars == <<graph, tie, phase, frontier, closed, status, solution,
                 solved_node, budget, popped>>

\* Expander::start(start, goal)
StartCall ==
    /\ initial_nodes = None
    /\ expansion = None
    /\ \E s \in StartsStreams, g \in GoalsStreams :
        /\ initial_nodes' = Some(InitialNodesNew(s, g))
        /\ start' = Some(s)
        /\ goal' = g
    /\ yielded' = << >>
    /\ UNCHANGED <<expansion, search_vars>>

\* InitialNodes::next is called
InitialNextCall ==
    /\ initial_nodes # None
    /\ Len(yielded) < MaxCalls
    /\ \E r \in {InitialNodesStep(initial_nodes[1])} :
        /\ initial_nodes' = Some(r.st)
        /\ yielded' = Append(yielded, r.item)
    /\ UNCHANGED <<start, goal, expansion, search_vars>>

\* the number of ancestors of a node
RECURSIVE ChainLength(_)
ChainLength(node) == IF node.parent = None THEN 0 ELSE 1 + ChainLength(node.parent[1])

\* Expander::expand(parent, goal) on a node the held stream has yielded, with
\* the goal given to start or with a goal whose vertex is out of range
ExpandCall ==
    /\ \E k \in 1 .. Len(yielded), g \in {goal} \cup {Some(b) : b \in BadGoals} :
        /\ yielded[k] # None
        /\ ChainLength(yielded[k][1]) <= MaxDepth
        /\ expansion' = Some(ExpansionNew(yielded[k][1], g))
    /\ initial_nodes' = None
    /\ yielded' = << >>
    /\ UNCHANGED <<start, goal, search_vars>>

\* Expansion::next is called
ExpansionNextCall ==
    /\ expansion # None
    /\ Len(yielded) < MaxCalls
    /\ \E r \in {ExpansionNext(expansion[1])} :
        /\ expansion' = Some(r.st)
        /\ yielded' = Append(yielded, r.item)
    /\ UNCHANGED <<start, goal, initial_nodes, search_vars>>

NextStreams == StartCall \/ InitialNextCall \/ ExpandCall \/ ExpansionNextCall

SpecStreams == InitStreams /\ [][NextStreams]_vars

-----------------------------------------------------------------------------
(* Reference semantics of the search space, used to state the claims: the   *)
(* poses a robot can reach and the least time to reach each, computed       *)
(* without the expander.                                                    *)

\* the pose of the start
RefStart(s) ==
    [vertex |-> s.vertex,
     position |-> IF s.offset_location # None THEN s.offset_location[1]
                  ELSE VertexPosition(s.vertex),
     yaw |-> s.orientation,
     off |-> s.offset_location # None]

\* turning in place takes RotTicks per yaw unit
RefTurn(y1, y2) == AngleAbs(y1, y2) * RotTicks

\* turn towards vertex v, then drive to it
RefDrive(a, v) ==
    LET q == VertexPosition(v)
        b == Bearing(q[1] - a.position[1], q[2] - a.position[2])
    IN [to |-> [vertex |-> v, position |-> q, yaw |-> b, off |-> FALSE],
        cost |-> RefTurn(a.yaw, b) + TravelTicks(a.position, q)]

\* the moves out of a pose: off the graph, drive to the start vertex; on the
\* graph, drive to a neighbor or, at the goal vertex, turn to the goal yaw
RefMoves(a, g) ==
    IF a.off THEN {RefDrive(a, a.vertex)}
    ELSE {RefDrive(a, graph.edges[a.vertex][i]) : i \in 1 .. Len(graph.edges[a.vertex])}
         \cup (IF g.orientation # None /\ a.vertex = g.vertex
               THEN {[to |-> [a EXCEPT !.yaw = g.orientation[1].target],
                      cost |-> RefTurn(a.yaw, g.orientation[1].target)]}
               ELSE {})

RefSatisfied(a, g) ==
    /\ a.vertex = g.vertex
    /\ \/ g.orientation = None
       \/ AngleAbs(a.yaw, g.orientation[1].target) <= g.orientation[1].threshold

\* one round of relaxation over a set of [pose, cost] pairs
RefRelax(R, g) ==
    LET all == R \cup {[pose |-> m.to, cost |-> p.cost + m.cost] :
                          <<p, m>> \in UNION {{<<p, m>> : m \in RefMoves(p.pose, g)} : p \in R}}
    IN {p \in all : \A q \in all : q.pose = p.pose => p.cost <= q.cost}

RECURSIVE RefFix(_, _)
RefFix(R, g) ==
    LET R2 == RefRelax(R, g)
    IN IF R2 = R THEN R ELSE RefFix(R2, g)

\* every reachable pose with the least cost of reaching it
RefBest(s, g) == RefFix({[pose |-> RefStart(s), cost |-> 0]}, g)

\* the costs of the reachable poses that satisfy the goal
RefGoalCosts(s, g) == {p.cost : p \in {q \in RefBest(s, g) : RefSatisfied(q.pose, g)}}

-----------------------------------------------------------------------------
(* Claims *)

\* C1: the first Solved status is cost-optimal: the accumulated cost of the
\* node it was built from is at most the cost of every goal-satisfying pose
\* reachable from the start (on every graph, start and goal of the model the
\* Euclidean heuristic is admissible and every motion has a cost >= 0).
C1_FirstSolvedIsOptimal ==
    status = "Solved" =>
        \A c \in RefGoalCosts(start[1], goal[1]) : solved_node[1].cost <= c

\* the least cost of satisfying the goal from pose a, as a set (empty when
\* the goal cannot be satisfied from a)
RefCostToGo(a, g) ==
    LET costs == {p.cost : p \in {q \in RefFix({[pose |-> a, cost |-> 0]}, g) :
                                    RefSatisfied(q.pose, g)}}
    IN {c \in costs : \A d \in costs : c <= d}

\* the heuristic never overestimates the cost to go from a reachable pose
RefAdmissible(s, g) ==
    \A p \in RefBest(s, g) :
        \A c \in RefCostToGo(p.pose, g) :
            estimate_cost(p.pose.vertex, Some(g.vertex))[1] <= c

\* a search that popped several nodes and returned the cheaper of two ways of
\* satisfying the goal, under an admissible heuristic
C1_Witness ==
    /\ status = "Solved"
    /\ Len(popped) >= 4
    /\ solved_node[1].cost > 0
    /\ \E c \in RefGoalCosts(start[1], goal[1]) : c > solved_node[1].cost
    /\ RefAdmissible(start[1], goal[1])

\* the motions along a node's parent chain, from the start to the node
RECURSIVE ChainSegments(_)
ChainSegments(node) ==
    (IF node.parent # None THEN ChainSegments(node.parent[1]) ELSE << >>)
    \o (IF node.motion_from_parent # None THEN <<node.motion_from_parent[1]>> ELSE << >>)

RECURSIVE SumDurations(_)
SumDurations(segments) ==
    IF segments = << >> THEN 0
    ELSE Duration(segments[1]) + SumDurations(Tail(segments))

\* C2: the cost of the Solution built from a solution node equals that
\* node's accumulated cost and the sum of the costs of the motions along its
\* parent chain.
C2_SolutionCostIsNodeCost ==
    status = "Solved" =>
        /\ solution[1].cost = solved_node[1].cost
        /\ solution[1].cost = SumDurations(ChainSegments(solved_node[1]))

\* the goal test as the claim states it
SatisfiesGoal(node) ==
    /\ node.vertex = goal[1].vertex
    /\ \/ goal[1].orientation = None
       \/ AngleAbs(node.state.position.rotation, goal[1].orientation[1].target)
            <= goal[1].orientation[1].threshold

\* a node's ancestors, nearest first
RECURSIVE Ancestors(_)
Ancestors(node) ==
    IF node.parent = None THEN << >>
    ELSE <<node.parent[1]>> \o Ancestors(node.parent[1])

\* C3: Solved is only returned for a popped node that satisfies the goal,
\* and a popped node that satisfies the goal is returned as Solved and never
\* expanded: it is the last node popped, it is not closed and no open node
\* descends from it.
C3_SolvedIffPoppedSatisfiesGoal ==
    /\ status = "Solved" =>
          /\ popped # << >>
          /\ solved_node = Some(popped[Len(popped)])
          /\ SatisfiesGoal(solved_node[1])
    /\ \A i \in 1 .. Len(popped) :
          SatisfiesGoal(popped[i]) =>
              /\ i = Len(popped)
              /\ status = "Solved"
              /\ popped[i] \notin closed
              /\ \A j \in 1 .. Len(frontier) : frontier[j].parent # Some(popped[i])

\* a search solved by a node whose yaw error equals the threshold, after
\* popping nodes at the goal vertex that did not satisfy the goal
C3_Witness ==
    /\ status = "Solved"
    /\ goal[1].orientation # None
    /\ goal[1].orientation[1].threshold = 1
    /\ AngleAbs(solved_node[1].state.position.rotation, goal[1].orientation[1].target) = 1
    /\ Len(popped) >= 3

\* C4: when the solution node's parent chain holds a motion segment, the
\* Solution's motion is present, begins at the start node's state, ends at
\* the solution node's state and runs through the segments in start-to-goal
\* order.
C4_MotionSpansChain ==
    (status = "Solved" /\ ChainSegments(solved_node[1]) # << >>) =>
        /\ solution[1].motion # None
        /\ solution[1].motion[1][1] = ChainRoot(solved_node[1]).state
        /\ solution[1].motion[1][Len(solution[1].motion[1])] = solved_node[1].state
        /\ \A k \in 1 .. Len(ChainSegments(solved_node[1])) :
              \A w \in 1 .. Len(ChainSegments(solved_node[1])[k]) :
                 \E m \in 1 .. Len(solution[1].motion[1]) :
                    solution[1].motion[1][m] = ChainSegments(solved_node[1])[k][w]

\* C5: the concatenated solution trajectory has strictly increasing times
\* over the whole parent chain, the joints included, so that n segments of
\* one waypoint each give n + 1 waypoints.
C5_ConcatenationIsMonotone ==
    (status = "Solved" /\ ChainSegments(solved_node[1]) # << >>) =>
        /\ solution[1].motion # None
        /\ StrictlyIncreasing(solution[1].motion[1])
        /\ (\A k \in 1 .. Len(ChainSegments(solved_node[1])) :
                Len(ChainSegments(solved_node[1])[k]) = 2)
            => Len(solution[1].motion[1]) = Len(ChainSegments(solved_node[1])) + 1

\* C6: when no motion segment lies on the solution node's parent chain,
\* extraction succeeds and the Solution has no motion.
C6_NoSegmentNoMotion ==
    (status = "Solved" /\ ChainSegments(solved_node[1]) = << >>) =>
        /\ solution # None
        /\ solution[1].motion = None

\* the agent starts on its goal, with and without an orientation goal
C6_Witness ==
    /\ status = "Solved"
    /\ ChainSegments(solved_node[1]) = << >>
    /\ solved_node[1].is_start # None
    /\ start[1].vertex = goal[1].vertex

\* C7: step returns Impossible exactly when the frontier is empty at pop
\* time, and when the search ends Impossible no pose satisfying the goal is
\* reachable from the start.
C7_ImpossibleIffExhausted ==
    /\ [][Step => ((status' = "Impossible") <=> (frontier = << >>))]_vars
    /\ [](status = "Impossible" => RefGoalCosts(start[1], goal[1]) = {})

\* the frontier ran empty after several pops, the goal vertex being cut off
\* from the start
C7_Witness ==
    /\ status = "Impossible"
    /\ Len(popped) >= 3
    /\ goal[1].orientation = None
    /\ \A p \in RefBest(start[1], goal[1]) : p.pose.vertex # goal[1].vertex

\* a rotate-in-place successor: a node made at its parent's vertex
IsRotation(node) ==
    /\ node.parent # None
    /\ node.parent[1].is_start = None \/ node.parent[1].is_start[1].offset_location = None
    /\ node.vertex = node.parent[1].vertex

\* the variant of solve's loop: the keys not yet closed and the key-less
\* nodes still open, each weighted by more than one expansion can push,
\* plus the number of open nodes
SearchMeasure ==
    LET width == Len(VertexPositions) + 1
        keys == Cardinality(Vertices \X Vertices)
        closed_keys == Cardinality({c.key : c \in closed})
        keyless == Cardinality({i \in 1 .. Len(frontier) : frontier[i].key = None})
    IN (keys - closed_keys + keyless) * width + Len(frontier)

\* C8: a solve call without a limit returns a terminal status: solve's loop
\* can always take its next step, and every step that does not end the search
\* lowers a measure that is never negative, so the loop cannot run forever,
\* also when no node at the goal vertex comes within the orientation
\* threshold.
C8_SolveTerminates ==
    /\ [][(Step /\ status' = "Incomplete") => SearchMeasure' < SearchMeasure]_vars
    /\ [](SearchMeasure >= 0)
    /\ [](phase = "solving" => StepEnabled)

\* a search that ended although the orientation threshold could not be met:
\* it popped a rotate-in-place successor of a rotate-in-place successor
C8_Witness ==
    /\ phase = "done"
    /\ status = "Impossible"
    /\ goal[1].orientation # None
    /\ goal[1].orientation[1].threshold < 0
    /\ \E i \in 1 .. Len(popped) :
          /\ IsRotation(popped[i])
          /\ IsRotation(popped[i].parent[1])

\* the search state of the Progress
SearchState ==
    [frontier |-> frontier, closed |-> closed, status |-> status,
     solution |-> solution, popped |-> popped]

\* the search state right after plan
PlannedState ==
    [frontier |-> InitialFrontier(start[1], goal), closed |-> {},
     status |-> "Incomplete", solution |-> None, popped |-> << >>]

\* the search state k steps into one uninterrupted solve, or its final state
\* if it ends sooner
RECURSIVE Uninterrupted(_, _)
Uninterrupted(S, k) ==
    IF k = 0 \/ Terminal(S.status) THEN S
    ELSE LET r == CHOOSE x \in StepResults(S.frontier, S.closed, goal, tie) : TRUE
         IN Uninterrupted(
                [frontier |-> r.frontier, closed |-> r.closed, status |-> r.status,
                 solution |-> r.solution,
                 popped |-> IF r.node # None THEN Append(S.popped, r.node[1])
                            ELSE S.popped],
                k - 1)

\* C9: a limited solve call returns Incomplete once its limit is used up
\* without a terminal status, leaving the frontier and the closed set as an
\* uninterrupted solve has them after as many steps; however the run is
\* split into limited calls, it ends with the terminal status, the Solution
\* and the popped nodes of one uninterrupted solve.
C9_ResumeEqualsUninterrupted ==
    /\ [][(phase = "solving" /\ phase' = "idle") =>
            (status' = "Incomplete" /\ budget' = Some(0))]_vars
    /\ []((phase = "idle" /\ popped # << >>) =>
            SearchState = Uninterrupted(PlannedState, Len(popped)))
    /\ [](phase = "done" => SearchState = Uninterrupted(PlannedState, MaxSteps))

\* a search solved in its third limited call or later, after the closed set
\* had rejected a node
C9_Witness ==
    /\ phase = "done"
    /\ status = "Solved"
    /\ budget # None
    /\ Len(popped) > 2 * MaxLimit
    /\ \E i \in 1 .. Len(popped) :
          /\ popped[i].key # None
          /\ \E j \in 1 .. (i - 1) :
                popped[j].key = popped[i].key /\ popped[j].cost <= popped[i].cost

\* the frontier indices holding a node of lowest total_cost_estimate
LowestTotal ==
    {i \in 1 .. Len(frontier) :
        \A j \in 1 .. Len(frontier) :
            frontier[i].total_cost_estimate <= frontier[j].total_cost_estimate}

\* C10: the search is deterministic. The graph, its neighbor order, the start,
\* the goal and the tie-break rule fix the planned frontier, and from every
\* state a search reaches they fix the step: it has exactly one outcome (one
\* popped node, one next frontier and closed set, one status and Solution),
\* and that outcome is the one the step takes. Two runs on the same inputs
\* therefore pop the same sequence of nodes and return the same Solution.
C10_SearchIsDeterministic ==
    /\ [](phase = "solving" =>
            Cardinality(StepResults(frontier, closed, goal, tie)) = 1)
    /\ [][Plan => (frontier' = InitialFrontier(start'[1], goal') /\ closed' = {}
                    /\ popped' = << >>)]_vars
    /\ [][Step => \A r \in StepResults(frontier, closed, goal, tie) :
                     /\ <<frontier', closed', status', solution'>>
                          = <<r.frontier, r.closed, r.status, r.solution>>
                     /\ popped' = (IF r.node = None THEN popped
                                   ELSE Append(popped, r.node[1]))]_vars

\* a search that has popped nodes and now holds two different nodes tied at the
\* lowest total_cost_estimate, whose pops would lead to different outcomes
C10_Witness ==
    /\ phase = "solving"
    /\ popped # << >>
    /\ \E i \in LowestTotal, j \in LowestTotal :
          /\ frontier[i] # frontier[j]
          /\ StepAt(frontier, closed, goal, i) # StepAt(frontier, closed, goal, j)

\* the start is unreachable from the graph: its vertex index is out of range
\* and it has no offset_location
StartUnreachable(s) ==
    s.vertex \notin DOMAIN graph.vertices /\ s.offset_location = None

\* the Euclidean heuristic has no estimate between two vertices: one of them
\* is out of range
NoEstimate(from_vertex, to_vertex) ==
    from_vertex \notin DOMAIN graph.vertices \/ to_vertex \notin DOMAIN graph.vertices

\* C11: plan returns PlanInitError at once, and no Progress, exactly when the
\* start is unreachable from the graph or the heuristic returns none for the
\* start; a Progress never reports Impossible without having popped a node.
C11_PlanInitErrorOnBadStart ==
    /\ [][Plan => ((phase' = "error") <=>
                     \/ StartUnreachable(start'[1])
                     \/ NoEstimate(start'[1].vertex, goal'[1].vertex))]_vars
    /\ [](phase = "error" => frontier = << >>)
    /\ []((phase # "error" /\ status = "Impossible") => popped # << >>)

\* plan failed for an off-graph start whose vertex index is out of range: the
\* start has a waypoint but the heuristic has no estimate for it
C11_Witness ==
    /\ phase = "error"
    /\ start[1].offset_location # None
    /\ start[1].vertex = BadVertex
    /\ goal[1].vertex \in Vertices

\* C12: with an offset_location the agent first drives to the start vertex: no
\* Solved status is built from the off-graph initial node, also when
\* start.vertex = goal.vertex, and the Solution's motion begins with the
\* segment from the offset location to the start vertex and its cost covers
\* that segment.
C12_OffsetStartDrivesFirst ==
    (status = "Solved" /\ start[1].offset_location # None) =>
        /\ solved_node[1].is_start = None
        /\ solution[1].motion # None
        /\ solution[1].motion[1][1].position.translation = start[1].offset_location[1]
        /\ \E m \in 2 .. Len(solution[1].motion[1]) :
              /\ solution[1].motion[1][m].position.translation
                    = VertexPosition(start[1].vertex)
              /\ \A k \in 1 .. (m - 1) :
                    solution[1].motion[1][k].position.translation
                        = start[1].offset_location[1]
        /\ solution[1].cost
              >= TravelTicks(start[1].offset_location[1], VertexPosition(start[1].vertex))

\* C13: over any number of next() calls the initial-node stream yields at most
\* one node; a node it yields has zero cost, no parent, no motion_from_parent,
\* no key, the start's vertex, the start's waypoint at time zero as its state
\* and the start as is_start; when the heuristic has no estimate for the start
\* vertex the stream yields nothing.
C13_InitialStreamYieldsAtMostOne ==
    initial_nodes # None =>
        /\ Cardinality({k \in 1 .. Len(yielded) : yielded[k] # None}) <= 1
        /\ \A k \in 1 .. Len(yielded) :
              yielded[k] # None =>
                 /\ yielded[k][1].cost = 0
                 /\ yielded[k][1].parent = None
                 /\ yielded[k][1].motion_from_parent = None
                 /\ yielded[k][1].key = None
                 /\ yielded[k][1].vertex = start[1].vertex
                 /\ yielded[k][1].state.time = 0
                 /\ yielded[k][1].state.position.rotation = start[1].orientation
                 /\ yielded[k][1].state.position.translation
                       = (IF start[1].offset_location # None
                          THEN start[1].offset_location[1]
                          ELSE graph.vertices[start[1].vertex])
                 /\ yielded[k][1].is_start = start
        /\ (goal # None /\ NoEstimate(start[1].vertex, goal[1].vertex)) =>
              \A k \in 1 .. Len(yielded) : yielded[k] = None

\* the stream of an off-graph start was called three times or more and
\* yielded its node on the first call
C13_Witness ==
    /\ initial_nodes # None
    /\ Len(yielded) >= 3
    /\ yielded[1] # None
    /\ start[1].offset_location # None

\* the node is the initial node of an off-graph start
IsOffsetStart(node) ==
    node.is_start # None /\ node.is_start[1].offset_location # None

\* a successor at vertex v can be made for the parent: v is a vertex of the
\* graph, the motion to it can be extrapolated and the heuristic has an
\* estimate from v to the goal g
EntrySucceeds(parent, g, v) ==
    /\ v \in DOMAIN graph.vertices
    /\ IsFinitePoint(graph.vertices[v])
    /\ IsFinitePosition(parent.state.position)
    /\ (g = None \/ ~NoEstimate(v, g[1].vertex))

\* the successor of an off-graph parent: made at the parent's vertex by a
\* motion that starts at the off-graph pose and ends on the vertex, and not
\* tagged is_start
IsDriveToStartVertex(node, parent) ==
    /\ node.vertex = parent.vertex
    /\ node.parent = Some(parent)
    /\ node.is_start = None
    /\ node.motion_from_parent # None
    /\ node.motion_from_parent[1][1] = parent.state
    /\ node.motion_from_parent[1][Len(node.motion_from_parent[1])] = node.state
    /\ node.state.position.translation = graph.vertices[parent.vertex]
    /\ node.cost = parent.cost + node.state.time - parent.state.time

\* expanding the successor of an off-graph start takes the neighbor branch:
\* the stream's first item is a node whenever some neighbor entry can succeed,
\* and every node it yields is at a neighbor or at the parent's own vertex
TakesNeighborBranch ==
    (expansion # None /\ expansion[1].from_node.parent # None
        /\ IsOffsetStart(expansion[1].from_node.parent[1])) =>
        /\ expansion[1].from_node.is_start = None
        /\ \A k \in 1 .. Len(yielded) :
              yielded[k] # None =>
                 /\ yielded[k][1].parent = Some(expansion[1].from_node)
                 /\ \/ yielded[k][1].vertex = expansion[1].from_node.vertex
                    \/ \E j \in 1 .. Len(graph.edges[expansion[1].from_node.vertex]) :
                          graph.edges[expansion[1].from_node.vertex][j] = yielded[k][1].vertex
        /\ (/\ yielded # << >>
             /\ \E j \in 1 .. Len(graph.edges[expansion[1].from_node.vertex]) :
                   EntrySucceeds(expansion[1].from_node, expansion[1].goal,
                                 graph.edges[expansion[1].from_node.vertex][j]))
            => yielded[1] # None

\* C14 as stated: expanding a parent whose is_start has an offset_location
\* yields exactly one successor, made by extrapolating from the off-graph
\* pose to parent.vertex; no neighbor and no goal-orientation successor is
\* produced; the successor is not tagged is_start and its own expansion takes
\* the neighbor branch.
C14_OffsetStartYieldsExactlyOne ==
    /\ (expansion # None /\ IsOffsetStart(expansion[1].from_node) /\ yielded # << >>) =>
          /\ yielded[1] # None
          /\ IsDriveToStartVertex(yielded[1][1], expansion[1].from_node)
          /\ \A k \in 2 .. Len(yielded) : yielded[k] = None
    /\ TakesNeighborBranch

\* C14, amended: expanding a parent whose is_start has an offset_location
\* yields at most one successor, on the first call, and yields it exactly
\* when parent.vertex is a vertex of the graph, the motion to it can be
\* extrapolated and the heuristic has an estimate for it; otherwise the
\* stream is empty. The rest is as stated.
C14_OffsetStartYieldsAtMostOne ==
    /\ (expansion # None /\ IsOffsetStart(expansion[1].from_node) /\ yielded # << >>) =>
          /\ (yielded[1] # None) <=>
                EntrySucceeds(expansion[1].from_node, expansion[1].goal,
                              expansion[1].from_node.vertex)
          /\ yielded[1] # None =>
                IsDriveToStartVertex(yielded[1][1], expansion[1].from_node)
          /\ \A k \in 2 .. Len(yielded) : yielded[k] = None
    /\ TakesNeighborBranch

\* an off-graph start at the goal vertex, with neighbors and an orientation
\* goal: its stream yielded the drive to the start vertex and then ended
C14_Witness ==
    /\ expansion # None
    /\ IsOffsetStart(expansion[1].from_node)
    /\ Len(yielded) >= 3
    /\ yielded[1] # None
    /\ expansion[1].goal # None
    /\ expansion[1].goal[1].vertex = expansion[1].from_node.vertex
    /\ expansion[1].goal[1].orientation # None
    /\ \E j \in 1 .. Len(graph.edges[expansion[1].from_node.vertex]) :
          EntrySucceeds(expansion[1].from_node, expansion[1].goal,
                        graph.edges[expansion[1].from_node.vertex][j])

\* the neighbor list of a vertex, empty when the graph has none for it
NeighborList(v) == IF v \in DOMAIN graph.edges THEN graph.edges[v] ELSE << >>

\* the entries of the parent's neighbor list for which a successor can be
\* made, in declared order
SucceedingEntries(parent, g) ==
    LET Succeeds(v) == EntrySucceeds(parent, g, v)
    IN SelectSeq(NeighborList(parent.vertex), Succeeds)

\* the nodes among the items the held stream has yielded, in order
YieldedNodes ==
    LET IsNode(item) == item # None
        nodes == SelectSeq(yielded, IsNode)
    IN [k \in 1 .. Len(nodes) |-> nodes[k][1]]

\* a successor of the parent for the neighbor v: on v, keyed by the edge,
\* child of the parent, after a motion that starts at the parent's state and
\* ends at the node's state and whose duration is the cost added
IsNeighborSuccessor(node, parent, v) ==
    /\ node.vertex = v
    /\ node.key = Some([from_vertex |-> parent.vertex, to_vertex |-> v, side |-> "Finish"])
    /\ node.parent = Some(parent)
    /\ node.cost = parent.cost + (node.state.time - parent.state.time)
    /\ node.motion_from_parent # None =>
          /\ node.motion_from_parent[1][1] = parent.state
          /\ node.motion_from_parent[1][Len(node.motion_from_parent[1])] = node.state
          /\ node.state.position.translation = graph.vertices[v]
    /\ node.motion_from_parent = None => node.state = parent.state

\* C15: for a parent without an offset start the stream emits the neighbor
\* successors in the declared order of parent.vertex's neighbor list, at most
\* one per entry: the k-th node it yields is the successor for the k-th entry
\* that can succeed, with vertex = v, key = (parent.vertex, v, Finish),
\* parent = the expanded node, cost = parent.cost + the cost of the motion and
\* state = the motion's last waypoint.
C15_NeighborsInDeclaredOrder ==
    (expansion # None /\ ~IsOffsetStart(expansion[1].from_node)) =>
        \A k \in 1 .. Len(YieldedNodes) :
            k <= Len(SucceedingEntries(expansion[1].from_node, expansion[1].goal)) =>
                IsNeighborSuccessor(
                    YieldedNodes[k], expansion[1].from_node,
                    SucceedingEntries(expansion[1].from_node, expansion[1].goal)[k])

\* a parent that has a cost of its own and a neighbor list with a repeated
\* entry: its stream yielded a successor for each entry
C15_Witness ==
    /\ expansion # None
    /\ ~IsOffsetStart(expansion[1].from_node)
    /\ expansion[1].from_node.cost > 0
    /\ Len(YieldedNodes) >= 3
    /\ Len(SucceedingEntries(expansion[1].from_node, expansion[1].goal)) >= 3
    /\ YieldedNodes[2].vertex = YieldedNodes[3].vertex
    /\ YieldedNodes[1].vertex # YieldedNodes[2].vertex

\* the number of nodes among the first k items the held stream has yielded
NodesAmongFirst(k) == Cardinality({i \in 1 .. k : yielded[i] # None})

\* C16: a neighbor entry that fails (its index is not a vertex, the
\* extrapolation fails, or the heuristic has no estimate for it) is skipped:
\* no node is yielded for it, every item of the stream is a successor of the
\* parent or the end of the stream, and the stream does not end before a
\* successor has been yielded for every entry that can succeed, the entries
\* after a failed one included.
C16_FailedNeighborsAreSkipped ==
    (expansion # None /\ ~IsOffsetStart(expansion[1].from_node)) =>
        /\ \A k \in 1 .. Len(yielded) :
              yielded[k] # None =>
                 /\ yielded[k][1].parent = Some(expansion[1].from_node)
                 /\ EntrySucceeds(expansion[1].from_node, expansion[1].goal,
                                  yielded[k][1].vertex)
        /\ \A k \in 1 .. Len(yielded) :
              yielded[k] = None =>
                 NodesAmongFirst(k)
                    >= Len(SucceedingEntries(expansion[1].from_node, expansion[1].goal))

\* a neighbor list with an out-of-range index and a vertex whose position is
\* not finite before an entry that can succeed: the stream yielded the
\* successor for that entry and then ended
C16_Witness ==
    /\ expansion # None
    /\ ~IsOffsetStart(expansion[1].from_node)
    /\ yielded # << >>
    /\ yielded[Len(yielded)] = None
    /\ \E j1, j2, j3 \in 1 .. Len(NeighborList(expansion[1].from_node.vertex)) :
          /\ j1 < j3
          /\ j2 < j3
          /\ NeighborList(expansion[1].from_node.vertex)[j1] \notin DOMAIN graph.vertices
          /\ NeighborList(expansion[1].from_node.vertex)[j2] \in DOMAIN graph.vertices
          /\ ~IsFinitePoint(
                 graph.vertices[NeighborList(expansion[1].from_node.vertex)[j2]])
          /\ \E k \in 1 .. Len(yielded) :
                /\ yielded[k] # None
                /\ yielded[k][1].vertex = NeighborList(expansion[1].from_node.vertex)[j3]

\* the goal has an orientation and the parent is on the goal's vertex
AtGoalWithOrientation(parent, g) ==
    /\ g # None
    /\ g[1].orientation # None
    /\ parent.vertex = g[1].vertex

\* C17: per expanded parent the goal-orientation branch yields at most one
\* successor: the stream yields at most one node beyond the neighbor
\* successors, only after a successor for every neighbor entry that can
\* succeed, and only if the goal has an orientation and parent.vertex =
\* goal.vertex; that node is a child of the parent at the parent's vertex and
\* position, turned to the target; when the rotation fails the stream ends
\* without it.
C17_GoalOrientationAtMostOnce ==
    (expansion # None /\ ~IsOffsetStart(expansion[1].from_node)) =>
        LET parent == expansion[1].from_node
            g == expansion[1].goal
            n == Len(SucceedingEntries(parent, g))
        IN /\ Len(YieldedNodes) <= n + 1
           /\ \A k \in 1 .. Len(YieldedNodes) :
                 k <= n => YieldedNodes[k].vertex = SucceedingEntries(parent, g)[k]
           /\ Len(YieldedNodes) = n + 1 =>
                 /\ AtGoalWithOrientation(parent, g)
                 /\ YieldedNodes[n + 1].vertex = parent.vertex
                 /\ YieldedNodes[n + 1].parent = Some(parent)
                 /\ YieldedNodes[n + 1].state.position
                       = [translation |-> parent.state.position.translation,
                          rotation |-> g[1].orientation[1].target]
           /\ (AtGoalWithOrientation(parent, g) /\ g[1].orientation[1].target = NaN)
                 => Len(YieldedNodes) <= n

\* a parent on the goal's vertex with neighbors: after the neighbor successors
\* its stream yielded the rotate-in-place successor, and nothing on the two
\* calls after that
C17_Witness ==
    /\ expansion # None
    /\ ~IsOffsetStart(expansion[1].from_node)
    /\ Len(SucceedingEntries(expansion[1].from_node, expansion[1].goal)) >= 1
    /\ Len(YieldedNodes)
          = Len(SucceedingEntries(expansion[1].from_node, expansion[1].goal)) + 1
    /\ Len(yielded) >= Len(YieldedNodes) + 2
    /\ yielded[Len(yielded)] = None
    /\ yielded[Len(yielded) - 1] = None

\* the rotate-in-place successors the search holds or has popped
RotationNodes ==
    {frontier[i] : i \in {j \in 1 .. Len(frontier) : IsRotation(frontier[j])}}
    \cup {popped[i] : i \in {j \in 1 .. Len(popped) : IsRotation(popped[j])}}

\* the popped nodes that went through check_and_insert: all but the node a
\* Solved status was built from
CheckedNodes ==
    {popped[i] : i \in {j \in 1 .. Len(popped) : Some(popped[j]) # solved_node}}

\* C18 as stated: the rotate-in-place successor has remaining_cost_estimate
\* zero and no key, so the closed set accepts it and never stores it.
C18_RotationHasNoKey ==
    \A n \in RotationNodes :
        /\ n.remaining_cost_estimate = 0
        /\ n.key = None
        /\ n \notin closed

\* C18, amended: the rotate-in-place successor has remaining_cost_estimate
\* zero and the key (v, v, Finish) of its vertex v, so the closed set treats
\* it as any keyed node: once it has gone through check_and_insert the closed
\* set holds an entry of its key with a cost that is not higher (the node
\* itself if it was accepted, the entry that made it rejected otherwise).
C18_RotationIsKeyed ==
    \A n \in RotationNodes :
        /\ n.remaining_cost_estimate = 0
        /\ n.key = Some([from_vertex |-> n.vertex, to_vertex |-> n.vertex,
                          side |-> "Finish"])
        /\ n \in CheckedNodes =>
              \E c \in closed : c.key = n.key /\ c.cost <= n.cost

\* the closed set stores a rotate-in-place successor and has rejected a later
\* one of the same key
C18_Witness ==
    \E n \in RotationNodes \cap closed :
        \E m \in (RotationNodes \cap CheckedNodes) \ closed : m.key = n.key

\* the nodes the search holds or has popped
KnownNodes ==
    {frontier[i] : i \in 1 .. Len(frontier)} \cup {popped[i] : i \in 1 .. Len(popped)}

\* C19: check_and_insert(node) returns Rejected exactly when the node has a
\* key and the closed set holds an entry of equal key with cost <= node.cost,
\* and Accepted otherwise; a node without a key is Accepted and leaves the
\* closed set as it is. Checked for the closed set of every reachable state of
\* the search against every node the search holds or has popped.
C19_CheckAndInsertContract ==
    \A n \in KnownNodes :
        /\ check_and_insert(closed, n).result \in {"Accepted", "Rejected"}
        /\ (check_and_insert(closed, n).result = "Rejected") <=>
              /\ n.key # None
              /\ \E c \in closed : c.key = n.key /\ c.cost <= n.cost
        /\ n.key = None =>
              /\ check_and_insert(closed, n).result = "Accepted"
              /\ check_and_insert(closed, n).closed = closed

\* the closed set holds entries; among the nodes there is one without a key,
\* one whose key has an entry of equal cost, one whose key has a cheaper
\* entry and one whose key has no entry
C19_Witness ==
    /\ closed # {}
    /\ \E n \in KnownNodes : n.key = None
    /\ \E n \in KnownNodes : \E c \in closed : c.key = n.key /\ c.cost = n.cost
    /\ \E n \in KnownNodes : \E c \in closed : c.key = n.key /\ c.cost < n.cost
    /\ \E n \in KnownNodes : n.key # None /\ \A c \in closed : c.key # n.key

\* C20: after any sequence of steps the closed set holds at most one entry per
\* key, and the entry of a key is the cheapest of the nodes of that key that
\* went through check_and_insert so far; every such node has an entry for its
\* key.
C20_ClosedSetOnePerKey ==
    /\ \A c1 \in closed, c2 \in closed : c1.key = c2.key => c1 = c2
    /\ \A c \in closed :
          /\ c.key # None
          /\ c \in CheckedNodes
          /\ \A n \in CheckedNodes : n.key = c.key => c.cost <= n.cost
    /\ \A n \in CheckedNodes :
          n.key # None => \E c \in closed : c.key = n.key

\* the closed set holds several keys and has rejected a node whose key it
\* holds
C20_Witness ==
    /\ Cardinality(closed) >= 3
    /\ \E n \in CheckedNodes \ closed :
          \E c \in closed : c.key = n.key /\ c.cost <= n.cost

\* the closed set holds an entry of the node's key that costs no more
Dominated(node) ==
    /\ node.key # None
    /\ \E c \in closed : c.key = node.key /\ c.cost <= node.cost

\* the sequence f without its i-th element
Without(f, i) == SubSeq(f, 1, i - 1) \o SubSeq(f, i + 1, Len(f))

\* C21: when step pops a keyed node that the closed set rejects (the node
\* does not satisfy the goal and the closed set holds an entry of its key with
\* cost <= the node's), the node is discarded: step returns Incomplete, the
\* frontier after the step is the frontier before it without the popped node,
\* so no successor is pushed, and the closed set is unchanged.
C21_RejectedNodeIsDiscarded ==
    [][(Step /\ popped' # popped /\ ~SatisfiesGoal(popped'[Len(popped')])
             /\ Dominated(popped'[Len(popped')]))
        => /\ status' = "Incomplete"
           /\ closed' = closed
           /\ \E i \in 1 .. Len(frontier) :
                 /\ frontier[i] = popped'[Len(popped')]
                 /\ frontier' = Without(frontier, i)]_vars

\* the last step popped a keyed node that the closed set rejected, a node
\* that has successors, while other nodes were open
C21_Witness ==
    /\ popped # << >>
    /\ status = "Incomplete"
    /\ popped[Len(popped)].key # None
    /\ popped[Len(popped)] \notin closed
    /\ \E c \in closed : c.key = popped[Len(popped)].key
                          /\ c.cost <= popped[Len(popped)].cost
    /\ Successors(popped[Len(popped)], goal) # << >>
    /\ frontier # << >>

\* the heuristic is consistent over the poses reachable from the start: its
\* estimate at a pose is at most the cost of a move plus its estimate at the
\* pose the move leads to
RefConsistent(s, g) ==
    \A p \in RefBest(s, g) :
        \A m \in RefMoves(p.pose, g) :
            estimate_cost(p.pose.vertex, Some(g.vertex))[1]
                <= m.cost + estimate_cost(m.to.vertex, Some(g.vertex))[1]

\* C22: the total_cost_estimate values of the nodes popped over a whole
\* search are non-decreasing, the successors of off-graph starts and the
\* rotate-in-place successors included (on every graph, start and goal of the
\* model the Euclidean heuristic is consistent).
C22_PoppedEstimatesNonDecreasing ==
    \A i \in 1 .. Len(popped) : \A j \in i .. Len(popped) :
        popped[i].total_cost_estimate <= popped[j].total_cost_estimate

\* a search from an off-graph start, under a consistent heuristic, that
\* popped the drive to the start vertex and a rotate-in-place successor, the
\* estimates rising on the way
C22_Witness ==
    /\ Len(popped) >= 4
    /\ \E i \in 1 .. Len(popped) :
          popped[i].parent # None /\ IsOffsetStart(popped[i].parent[1])
    /\ \E i \in 1 .. Len(popped) :
          IsRotation(popped[i]) /\ popped[i].remaining_cost_estimate = 0
    /\ popped[1].total_cost_estimate < popped[Len(popped)].total_cost_estimate
    /\ RefConsistent(start[1], goal[1])

\* the pose a node stands for
RefPose(node) ==
    [vertex |-> node.vertex,
     position |-> node.state.position.translation,
     yaw |-> node.state.position.rotation,
     off |-> IsOffsetStart(node)]

\* C23: the total_cost_estimate of a popped node never overestimates: it is
\* at most the node's cost plus the cost of any way of satisfying the goal
\* from the node's pose, and when the search is solved, at most the cost of
\* the motions of the solution for every popped node on the solution's parent
\* chain; the off-graph initial node, whose estimate is taken from
\* start.vertex, is included (on every graph, start and goal of the model the
\* Euclidean heuristic is admissible).
C23_EstimateNeverOverestimates ==
    /\ popped # << >> =>
          \A c \in RefCostToGo(RefPose(popped[Len(popped)]), goal[1]) :
              popped[Len(popped)].total_cost_estimate
                  <= SumDurations(ChainSegments(popped[Len(popped)])) + c
    /\ status = "Solved" =>
          \A i \in 1 .. Len(popped) :
              (popped[i] = solved_node[1]
                 \/ \E k \in 1 .. Len(Ancestors(solved_node[1])) :
                       Ancestors(solved_node[1])[k] = popped[i])
              => popped[i].total_cost_estimate
                    <= SumDurations(ChainSegments(solved_node[1]))

\* a solved search from an off-graph start under an admissible heuristic: the
\* off-graph initial node was popped with an estimate above zero and the
\* solution passing through it costs more than that estimate
C23_Witness ==
    /\ status = "Solved"
    /\ Len(popped) >= 3
    /\ IsOffsetStart(popped[1])
    /\ popped[1].total_cost_estimate > 0
    /\ ChainRoot(solved_node[1]) = popped[1]
    /\ popped[1].total_cost_estimate < SumDurations(ChainSegments(solved_node[1]))
    /\ RefAdmissible(start[1], goal[1])

\* the nodes the caller of the streams has been given: the nodes yielded by
\* the held stream, the expanded parent, and the ancestors of all of them
CreatedNodes ==
    LET given == {YieldedNodes[k] : k \in 1 .. Len(YieldedNodes)}
                 \cup (IF expansion # None THEN {expansion[1].from_node} ELSE {})
    IN given \cup UNION {{Ancestors(n)[k] : k \in 1 .. Len(Ancestors(n))} : n \in given}

\* C24: every node created by the expander (initial nodes, successors of
\* off-graph starts, neighbor successors and rotate-in-place successors)
\* has total_cost_estimate = cost + remaining_cost_estimate.
C24_TotalIsCostPlusRemaining ==
    \A n \in CreatedNodes :
        n.total_cost_estimate = n.cost + n.remaining_cost_estimate

\* the successor of an off-graph initial node was expanded and its stream
\* yielded a neighbor successor with a remaining estimate above zero and a
\* rotate-in-place successor that took time
C24_Witness ==
    /\ expansion # None
    /\ expansion[1].from_node.parent # None
    /\ IsOffsetStart(expansion[1].from_node.parent[1])
    /\ expansion[1].from_node.cost > 0
    /\ \E k \in 1 .. Len(YieldedNodes) :
          /\ YieldedNodes[k].vertex # expansion[1].from_node.vertex
          /\ YieldedNodes[k].remaining_cost_estimate > 0
          /\ YieldedNodes[k].cost > expansion[1].from_node.cost
    /\ \E k \in 1 .. Len(YieldedNodes) :
          /\ IsRotation(YieldedNodes[k])
          /\ YieldedNodes[k].cost > expansion[1].from_node.cost

\* the node's motion_from_parent runs from its parent's state to its own
MotionJoinsParent(n) ==
    /\ n.motion_from_parent # None
    /\ n.motion_from_parent[1][1] = n.parent[1].state
    /\ n.motion_from_parent[1][Len(n.motion_from_parent[1])] = n.state

\* C25 as stated: every node with a parent has motion_from_parent present,
\* with first = parent.state and last = node.state, also when the
\* extrapolation returned no waypoints; motion_from_parent is absent only at
\* the start node.
C25_MotionPresentForEveryChild ==
    \A n \in CreatedNodes :
        /\ n.parent # None => MotionJoinsParent(n)
        /\ n.parent = None => n.motion_from_parent = None

\* C25, amended: a node with a parent has motion_from_parent present, with
\* first = parent.state and last = node.state, exactly when the extrapolation
\* returned a waypoint, that is when the node's state differs from its
\* parent's; when the extrapolation returned no waypoints the node has its
\* parent's state and cost and no motion_from_parent. The start node has no
\* motion_from_parent.
C25_MotionPresentUnlessNoWaypoints ==
    \A n \in CreatedNodes :
        /\ n.parent = None => n.motion_from_parent = None
        /\ n.parent # None =>
              /\ (n.state # n.parent[1].state) <=> (n.motion_from_parent # None)
              /\ n.motion_from_parent # None => MotionJoinsParent(n)
              /\ n.motion_from_parent = None => n.cost = n.parent[1].cost

\* a parent already turned to the goal's target yaw was expanded: its stream
\* yielded a neighbor successor with a spin and a drive, and a rotate-in-place
\* successor for which the extrapolation returned no waypoints
C25_Witness ==
    /\ expansion # None
    /\ AtGoalWithOrientation(expansion[1].from_node, expansion[1].goal)
    /\ expansion[1].from_node.state.position.rotation
          = expansion[1].goal[1].orientation[1].target
    /\ \E k \in 1 .. Len(YieldedNodes) :
          /\ YieldedNodes[k].motion_from_parent # None
          /\ Len(YieldedNodes[k].motion_from_parent[1]) = 3
    /\ \E k \in 1 .. Len(YieldedNodes) :
          /\ IsRotation(YieldedNodes[k])
          /\ YieldedNodes[k].motion_from_parent = None

\* the number of nodes the held stream has yielded at vertex v
YieldedAt(v) == Cardinality({k \in 1 .. Len(YieldedNodes) : YieldedNodes[k].vertex = v})

\* the number of entries of the neighbor list l that name vertex v
EntriesOf(l, v) == Cardinality({j \in 1 .. Len(l) : l[j] = v})

\* C26: the state of an expansion stream is consumed once per parent. Over
\* any sequence of next() calls the stream yields at most (number of entries
\* of parent.vertex's neighbor list + 1) successors; it yields no neighbor
\* entry twice: at a vertex it yields at most as many nodes as the list has
\* entries of that vertex, plus one at the parent's own vertex; once it has
\* returned end-of-stream every later call returns end-of-stream; and a call
\* never moves the neighbor index back or clears a flag.
C26_StreamStateConsumedOnce ==
    /\ [](expansion # None =>
            /\ Len(YieldedNodes) <= Len(NeighborList(expansion[1].from_node.vertex)) + 1
            /\ \A v \in {YieldedNodes[k].vertex : k \in 1 .. Len(YieldedNodes)} :
                  YieldedAt(v) <= EntriesOf(NeighborList(expansion[1].from_node.vertex), v)
                                  + (IF v = expansion[1].from_node.vertex THEN 1 ELSE 0)
            /\ \A k \in 1 .. Len(yielded) :
                  yielded[k] = None => \A j \in k .. Len(yielded) : yielded[j] = None)
    /\ [][ExpansionNextCall =>
            /\ expansion'[1].expansion_index >= expansion[1].expansion_index
            /\ expansion[1].expanded_start => expansion'[1].expanded_start
            /\ expansion[1].expanded_goal_orientation
                  => expansion'[1].expanded_goal_orientation
            /\ (yielded'[Len(yielded')] # None) =>
                  \/ expansion'[1].expansion_index > expansion[1].expansion_index
                  \/ expansion'[1].expanded_start # expansion[1].expanded_start
                  \/ expansion'[1].expanded_goal_orientation
                        # expansion[1].expanded_goal_orientation]_vars

\* a parent with a neighbor list that repeats an entry: its stream yielded a
\* successor for every entry and the rotate-in-place successor, and
\* end-of-stream on the two calls after that
C26_Witness ==
    /\ expansion # None
    /\ Len(NeighborList(expansion[1].from_node.vertex)) >= 3
    /\ Len(YieldedNodes) = Len(NeighborList(expansion[1].from_node.vertex)) + 1
    /\ \E v \in DOMAIN graph.vertices :
          EntriesOf(NeighborList(expansion[1].from_node.vertex), v) >= 2
    /\ Len(yielded) = Len(YieldedNodes) + 2
    /\ yielded[Len(yielded)] = None
    /\ yielded[Len(yielded) - 1] = None

=============================================================================
